---- MODULE Spec2Model ----
(***************************************************************************)
(* A model of rsha's task entry (src/entry.rs): the content fingerprint    *)
(* (calc_sha), the staleness decision (check_then), real and dry           *)
(* execution (reify, dry_run), and serialization (dump / from_yaml).       *)
(*                                                                         *)
(* Strings and file contents are sequences of one-character strings.  The  *)
(* SHA-256 digest is idealised as injective: a fingerprint is represented  *)
(* by the byte stream that was fed to the hasher.                          *)
(***************************************************************************)
EXTENDS Integers, Sequences, FiniteSets, TLC

\* entry:  the Entry (name, cmd, required_files, files, sha)
\* fs:     the filesystem, by canonical path
\* last:   what the last call of reify, dry_run or calc_sha found and returned
\* fresh:  sha is the fingerprint of the last ExecSuccess and no file changed since
\* alt:    a second filesystem state and cmd, with the fingerprint they give
\* doc:    the fragment dump wrote
\* loaded: what from_yaml made of doc
VARIABLES entry, fs, last, fresh, alt, doc, loaded

vars == <<entry, fs, last, fresh, alt, doc, loaded>>

(***************************************************************************)
(* Bounds of the model.                                                    *)
(***************************************************************************)
\* longest file content, in bytes
MaxLen == 1
\* most declared paths of one entry, files and required_files together
MaxDecl == 2
\* longest command text, in bytes
MaxCmdLen == 2

LF == "\n"
Byte == {"a", LF}

\* Declared path strings; "a" and "./a" are two spellings of one file.
Paths == {"a", "./a", "b"}
\* Canonical absolute paths, ordered as PathBuf orders them.
CanonPaths == {1, 2}
Canon(p) == IF p = "b" THEN 2 ELSE 1

SeqsUpTo(S, n) == UNION {[1..k -> S] : k \in 0..n}

\* Option<T>
None == [some |-> FALSE, val |-> <<>>]
Some(v) == [some |-> TRUE, val |-> <<v>>]

(***************************************************************************)
(* The filesystem: what each canonical path holds.  "absent": the path     *)
(* does not resolve.  "unreadable": it resolves but open/read fails (a     *)
(* directory, no read permission).                                         *)
(***************************************************************************)
Absent == [kind |-> "absent", bytes |-> <<>>]
Unreadable == [kind |-> "unreadable", bytes |-> <<>>]
Contents == {Absent, Unreadable} \cup {[kind |-> "file", bytes |-> b] : b \in SeqsUpTo(Byte, MaxLen)}
FsStates == [CanonPaths -> Contents]

\* The filesystems of the entry's life: files of one repeated byte.
LifeContents == {c \in Contents : \A i \in 1..Len(c.bytes) : c.bytes[i] = "a"}
LifeFs == [CanonPaths -> LifeContents]

Cmds == SeqsUpTo(Byte, MaxCmdLen) \ {<<>>}

\* The (files, required_files) declarations within the bound.
Decls == {d \in SeqsUpTo(Paths, MaxDecl) \X SeqsUpTo(Paths, MaxDecl) : Len(d[1]) + Len(d[2]) <= MaxDecl}

MkEntry(n, c, rf, f, s) == [name |-> n, cmd |-> c, required_files |-> rf, files |-> f, sha |-> s]

(***************************************************************************)
(* canonicalize: Some(canonical path) when the path resolves, else None.   *)
(***************************************************************************)
canonicalize(p, f) == IF f[Canon(p)].kind = "absent" THEN None ELSE Some(Canon(p))

\* iter().filter_map(canonicalize).collect()
RECURSIVE Resolved(_, _)
Resolved(ps, f) ==
    IF ps = <<>> THEN <<>>
    ELSE LET c == canonicalize(Head(ps), f)
         IN  (IF c.some THEN c.val ELSE <<>>) \o Resolved(Tail(ps), f)

\* Vec::sort on canonical paths
RECURSIVE Insert(_, _)
Insert(x, s) ==
    IF s = <<>> THEN <<x>>
    ELSE IF x <= Head(s) THEN <<x>> \o s
    ELSE <<Head(s)>> \o Insert(x, Tail(s))

RECURSIVE Sort(_)
Sort(s) == IF s = <<>> THEN <<>> ELSE Insert(Head(s), Sort(Tail(s)))

\* the bytes the read loop feeds to the hasher, file by file
RECURSIVE Stream(_, _)
Stream(ps, f) == IF ps = <<>> THEN <<>> ELSE f[Head(ps)].bytes \o Stream(Tail(ps), f)

ShaErr == [ok |-> FALSE, sha |-> <<>>]
ShaOk(s) == [ok |-> TRUE, sha |-> s]

\* all_files left in declaration order
all_files_unsorted(e, f) == Resolved(e.files \o e.required_files, f)

\* sort followed by Vec::dedup
RECURSIVE Dedup(_)
Dedup(s) ==
    IF Len(s) < 2 THEN s
    ELSE IF s[1] = s[2] THEN Dedup(Tail(s))
    ELSE <<Head(s)>> \o Dedup(Tail(s))

\* all_files with each file kept once
all_files_dedup(e, f) == Dedup(Sort(Resolved(e.files \o e.required_files, f)))

all_files(e, f) == Sort(Resolved(e.files \o e.required_files, f))

calc_sha(e, f) ==
    LET all == all_files(e, f)
    IN  IF \E i \in 1..Len(all) : f[all[i]].kind = "unreadable"
        THEN ShaErr
        ELSE ShaOk(Stream(all, f) \o e.cmd)

(***************************************************************************)
(* exec: what spawning and waiting for the command gives.  The outcome of  *)
(* the process is the environment's choice.                                *)
(***************************************************************************)
ExitCodes == {0, 1, 3}
ExecOutcomes == {[kind |-> k, code |-> 0] : k \in {"SpawnErr", "WaitErr", "NoCode"}}
                    \cup {[kind |-> "Exit", code |-> c] : c \in ExitCodes}

exec(out) == IF out.kind = "Exit" THEN [ok |-> TRUE, code |-> out.code] ELSE [ok |-> FALSE, code |-> 0]

\* The filesystem after exec: the command may have left any state behind,
\* unless no process was started.
PostFs(f, out, f2) == IF out.kind = "SpawnErr" THEN f ELSE f2

(***************************************************************************)
(* Results.  kind "Err" is the outer Err (an infrastructural error); the   *)
(* others are the variants of ReifySuccess and ReifyFail.  spawns counts   *)
(* the calls of Command::spawn, hashes the calls of calc_sha, rehash tells *)
(* whether calc_sha ran after exec, fs is the filesystem on return.        *)
(***************************************************************************)
Res(k, c, s, sp, h, rh, f) ==
    [kind |-> k, code |-> c, sha |-> s, spawns |-> sp, hashes |-> h, rehash |-> rh, fs |-> f]

\* reify_exec with the fingerprint taken before the command ran
reify_exec_stale(e, f, out, f2) ==
    LET x  == exec(out)
        pf == PostFs(f, out, f2)
    IN  IF ~x.ok THEN Res("Err", 0, <<>>, 1, 0, FALSE, pf)
        ELSE IF x.code = 0
        THEN LET n == calc_sha(e, f)
             IN  IF n.ok THEN Res("ExecSuccess", 0, n.sha, 1, 1, TRUE, pf)
                 ELSE Res("Err", 0, <<>>, 1, 1, TRUE, pf)
        ELSE Res("ExecFail", x.code, <<>>, 1, 0, FALSE, pf)

\* reify_exec reporting every failure as exit 1
reify_exec_flat(e, f, out, f2) ==
    LET x  == exec(out)
        pf == PostFs(f, out, f2)
    IN  IF ~x.ok THEN Res("Err", 0, <<>>, 1, 0, FALSE, pf)
        ELSE IF x.code = 0
        THEN LET n == calc_sha(e, pf)
             IN  IF n.ok THEN Res("ExecSuccess", 0, n.sha, 1, 1, TRUE, pf)
                 ELSE Res("Err", 0, <<>>, 1, 1, TRUE, pf)
        ELSE Res("ExecFail", 1, <<>>, 1, 0, FALSE, pf)

\* the closure `exec` of reify
reify_exec(e, f, out, f2) ==
    LET x  == exec(out)
        pf == PostFs(f, out, f2)
    IN  IF ~x.ok THEN Res("Err", 0, <<>>, 1, 0, FALSE, pf)
        ELSE IF x.code = 0
        THEN LET n == calc_sha(e, pf)
             IN  IF n.ok THEN Res("ExecSuccess", 0, n.sha, 1, 1, TRUE, pf)
                 ELSE Res("Err", 0, <<>>, 1, 1, TRUE, pf)
        ELSE Res("ExecFail", x.code, <<>>, 1, 0, FALSE, pf)

\* check_then ignoring the stored fingerprint
check_then_always(e, f, onExec) ==
    IF e.sha.some
    THEN LET n == calc_sha(e, f)
         IN  IF ~n.ok THEN Res("Err", 0, <<>>, 0, 1, FALSE, f)
             ELSE [onExec EXCEPT !.hashes = @ + 1]
    ELSE onExec

\* check_then with the comparison inverted
check_then_inverted(e, f, onExec) ==
    IF e.sha.some
    THEN LET n == calc_sha(e, f)
         IN  IF ~n.ok THEN Res("Err", 0, <<>>, 0, 1, FALSE, f)
             ELSE IF <<n.sha>> = e.sha.val
             THEN [onExec EXCEPT !.hashes = @ + 1]
             ELSE Res("Noop", 0, <<>>, 0, 1, FALSE, f)
    ELSE onExec

check_then(e, f, onExec) ==
    IF e.sha.some
    THEN LET n == calc_sha(e, f)
         IN  IF ~n.ok THEN Res("Err", 0, <<>>, 0, 1, FALSE, f)
             ELSE IF <<n.sha>> # e.sha.val
             THEN [onExec EXCEPT !.hashes = @ + 1]
             ELSE Res("Noop", 0, <<>>, 0, 1, FALSE, f)
    ELSE onExec

RequiredOk(e, f) == Len(Resolved(e.required_files, f)) = Len(e.required_files)

\* reify making the staleness decision before the required-files check
reify_late_check(e, f, out, f2) ==
    IF e.sha.some /\ calc_sha(e, f).ok /\ <<calc_sha(e, f).sha>> = e.sha.val
    THEN Res("Noop", 0, <<>>, 0, 1, FALSE, f)
    ELSE IF RequiredOk(e, f)
    THEN check_then(e, f, reify_exec(e, f, out, f2))
    ELSE Res("MissingRequiredFiles", 0, <<>>, 0, 0, FALSE, f)

reify(e, f, out, f2) ==
    IF RequiredOk(e, f)
    THEN check_then(e, f, reify_exec(e, f, out, f2))
    ELSE Res("MissingRequiredFiles", 0, <<>>, 0, 0, FALSE, f)

\* dry_run making reify's required-files check
dry_run_checked(e, f) ==
    IF RequiredOk(e, f)
    THEN check_then(e, f, Res("DryFail", 0, <<>>, 0, 0, FALSE, f))
    ELSE Res("MissingRequiredFiles", 0, <<>>, 0, 0, FALSE, f)

dry_run(e, f) == check_then(e, f, Res("DryFail", 0, <<>>, 0, 0, FALSE, f))

\* The three states of the staleness decision, as the call finds them.
Staleness(e, f) ==
    IF ~e.sha.some THEN "NoHistory"
    ELSE LET n == calc_sha(e, f)
         IN  IF ~n.ok THEN "IoError"
             ELSE IF <<n.sha>> = e.sha.val THEN "Unchanged" ELSE "Changed"

(***************************************************************************)
(* The life of one entry: the driver calls reify or dry_run, stores the    *)
(* fingerprint of an ExecSuccess, and the world changes files in between.  *)
(***************************************************************************)
SpawnErr == [kind |-> "SpawnErr", code |-> 0]

NoCall ==
    [op |-> "none", out |-> SpawnErr, fs0 |-> [p \in CanonPaths |-> Absent],
     sha0 |-> None, fresh0 |-> FALSE, kind |-> "none", code |-> 0, sha |-> <<>>,
     spawns |-> 0, hashes |-> 0, rehash |-> FALSE]

\* What a call found (fs0, sha0, fresh0, the command's outcome) and what it returned.
Call(op, out, r) ==
    [op |-> op, out |-> out, fs0 |-> fs, sha0 |-> entry.sha, fresh0 |-> fresh,
     kind |-> r.kind, code |-> r.code, sha |-> r.sha, spawns |-> r.spawns,
     hashes |-> r.hashes, rehash |-> r.rehash]

NoAlt == [set |-> FALSE, fs |-> [p \in CanonPaths |-> Absent], cmd |-> <<>>, r |-> ShaErr]
NoDoc == [set |-> FALSE, lines |-> <<>>, new_sha |-> None]
NoLoad == [set |-> FALSE, ok |-> FALSE, err |-> "", entry |-> MkEntry("", <<>>, <<>>, <<>>, None)]

LifeCmd == <<"a">>
\* The (files, required_files) declarations of the entry's life.
LifeDecls ==
    { <<<<>>, <<>>>>, <<<<"a">>, <<>>>>, <<<<>>, <<"a">>>>, <<<<"a">>, <<"b">>>>,
      <<<<"b">>, <<"./a">>>>, <<<<"a", "b">>, <<>>>>, <<<<>>, <<"a", "b">>>>, <<<<"a">>, <<"a">>>> }

Init ==
    /\ \E d \in LifeDecls : entry = MkEntry("t", LifeCmd, d[2], d[1], None)
    /\ fs \in LifeFs
    /\ last = NoCall
    /\ fresh = FALSE
    /\ alt = NoAlt
    /\ doc = NoDoc
    /\ loaded = NoLoad

\* The outcomes of the command that a call can tell apart: all of them when
\* the call spawns it, one when it does not.
Spawning == reify(entry, fs, SpawnErr, fs).spawns > 0
Outcomes == IF Spawning THEN ExecOutcomes ELSE {SpawnErr}
Effects(out) == IF out.kind = "SpawnErr" THEN {fs} ELSE LifeFs

Reify ==
    \E out \in Outcomes : \E f2 \in Effects(out) :
        LET r == reify(entry, fs, out, f2)
        IN  /\ last' = Call("reify", out, r)
            /\ fs' = r.fs
            /\ fresh' = (fresh /\ r.spawns = 0)
            /\ UNCHANGED <<entry, alt, doc, loaded>>

DryRun ==
    LET r == dry_run(entry, fs)
    IN  /\ last' = Call("dry_run", SpawnErr, r)
        /\ fs' = r.fs
        /\ fresh' = (fresh /\ r.spawns = 0)
        /\ UNCHANGED <<entry, alt, doc, loaded>>

\* The driver stores the fingerprint an ExecSuccess carries.
Persist ==
    /\ last.op = "reify"
    /\ last.kind = "ExecSuccess"
    /\ entry' = [entry EXCEPT !.sha = Some(last.sha)]
    /\ fresh' = TRUE
    /\ last' = NoCall
    /\ UNCHANGED <<fs, alt, doc, loaded>>

\* Something outside changes the files between two calls.
ExternalChange ==
    /\ \E f2 \in LifeFs \ {fs} : fs' = f2
    /\ fresh' = FALSE
    /\ last' = NoCall
    /\ UNCHANGED <<entry, alt, doc, loaded>>

Next == Reify \/ DryRun \/ Persist \/ ExternalChange

Spec == Init /\ [][Next]_vars

(***************************************************************************)
(* The fingerprint as a function: SpecSha computes it for one entry and    *)
(* one filesystem, SpecPair for a second filesystem and command as well.   *)
(***************************************************************************)
InitSha ==
    /\ \E c \in Cmds, d \in Decls : entry = MkEntry("t", c, d[2], d[1], None)
    /\ fs \in FsStates
    /\ last = NoCall
    /\ fresh = FALSE
    /\ alt = NoAlt
    /\ doc = NoDoc
    /\ loaded = NoLoad

CalcSha ==
    /\ last.op = "none"
    /\ LET r == calc_sha(entry, fs)
       IN  last' = [NoCall EXCEPT !.op = "calc_sha", !.fs0 = fs, !.hashes = 1,
                                  !.kind = IF r.ok THEN "Ok" ELSE "Err", !.sha = r.sha]
    /\ UNCHANGED <<entry, fs, fresh, alt, doc, loaded>>

\* the same declarations over another filesystem state and command text
CalcAlt ==
    /\ last.op = "calc_sha"
    /\ ~alt.set
    /\ \E f2 \in FsStates, c2 \in Cmds :
          alt' = [set |-> TRUE, fs |-> f2, cmd |-> c2, r |-> calc_sha([entry EXCEPT !.cmd = c2], f2)]
    /\ UNCHANGED <<entry, fs, last, fresh, doc, loaded>>

NextSha == CalcSha

SpecSha == InitSha /\ [][NextSha]_vars

NextPair == CalcSha \/ CalcAlt

SpecPair == InitSha /\ [][NextPair]_vars

(***************************************************************************)
(* Serialization.  A document is a sequence of lines, each the literal     *)
(* text of its writeln! (pre) and the value written after it (txt).        *)
(***************************************************************************)
Line(pre, txt) == [pre |-> pre, txt |-> txt]

\* position of the first line feed of s, 0 when it has none
RECURSIVE FirstLF(_, _)
FirstLF(s, i) ==
    IF i > Len(s) THEN 0
    ELSE IF s[i] = LF THEN i
    ELSE FirstLF(s, i + 1)

\* str::lines
RECURSIVE Lines(_)
Lines(s) ==
    IF s = <<>> THEN <<>>
    ELSE LET i == FirstLF(s, 1)
         IN  IF i = 0 THEN <<s>>
             ELSE <<SubSeq(s, 1, i - 1)>> \o Lines(SubSeq(s, i + 1, Len(s)))

WriteEach(pre, xs) == [i \in 1..Len(xs) |-> Line(pre, xs[i])]
WriteList(key, xs) ==
    IF xs = <<>> THEN <<>>
    ELSE <<Line(key, <<>>)>> \o [i \in 1..Len(xs) |-> Line("  - ", <<xs[i]>>)]

dump(e, new_sha) ==
    LET sha == IF new_sha.some THEN new_sha ELSE e.sha
    IN  <<Line("-", <<>>)>>
        \o (IF e.name # "" THEN <<Line("  name: ", <<e.name>>)>> ELSE <<>>)
        \o <<Line("  cmd: |", <<>>)>>
        \o WriteEach("    ", Lines(e.cmd))
        \o WriteList("  required_files:", e.required_files)
        \o WriteList("  files:", e.files)
        \o (IF sha.some THEN <<Line("  sha: ", sha.val)>> ELSE <<>>)

\* Document nodes
BadValue == [kind |-> "BadValue", str |-> <<>>, items |-> <<>>]
String(x) == [kind |-> "String", str |-> <<x>>, items |-> <<>>]
Array(xs) == [kind |-> "Array", str |-> <<>>, items |-> xs]

\* the lines that follow line i and begin with pre
RECURSIVE Run(_, _, _)
Run(ls, i, pre) ==
    IF i > Len(ls) \/ ls[i].pre # pre THEN <<>>
    ELSE <<ls[i].txt>> \o Run(ls, i + 1, pre)

\* A literal block scalar with the default (clip) chomping: the lines each
\* ended by a line feed, trailing empty lines dropped.
RECURSIVE Literal(_)
Literal(ls) ==
    IF ls = <<>> THEN <<>>
    ELSE IF ls[Len(ls)] = <<>> THEN Literal(SubSeq(ls, 1, Len(ls) - 1))
    ELSE IF Len(ls) = 1 THEN ls[1] \o <<LF>>
    ELSE ls[1] \o <<LF>> \o Literal(Tail(ls))

\* The mapping node loaded from a dumped fragment, indexed by key.
Index(ls, key) ==
    LET at(pre) == {i \in 1..Len(ls) : ls[i].pre = pre}
        one(pre) == CHOOSE i \in at(pre) : TRUE
        list(pre) ==
            IF at(pre) = {} THEN BadValue
            ELSE LET xs == Run(ls, one(pre) + 1, "  - ")
                 IN  Array([i \in 1..Len(xs) |-> String(xs[i][1])])
    IN  CASE key = "name" -> IF at("  name: ") = {} THEN BadValue ELSE String(ls[one("  name: ")].txt[1])
          [] key = "sha" -> IF at("  sha: ") = {} THEN BadValue ELSE String(ls[one("  sha: ")].txt[1])
          [] key = "cmd" -> IF at("  cmd: |") = {} THEN BadValue
                            ELSE String(Literal(Run(ls, one("  cmd: |") + 1, "    ")))
          [] key = "files" -> list("  files:")
          [] key = "required_files" -> list("  required_files:")

\* Yaml::as_str
as_str(y) == IF y.kind = "String" THEN Some(y.str[1]) ELSE None

\* filter_map(Yaml::as_str) over the items of an array
RECURSIVE Strings(_)
Strings(ys) ==
    IF ys = <<>> THEN <<>>
    ELSE as_str(Head(ys)).val \o Strings(Tail(ys))

str_vec(y) ==
    CASE y.kind = "Array" -> Strings(y.items)
      [] y.kind = "String" -> y.str
      [] OTHER -> <<>>

Loaded(ok, err, e) == [set |-> TRUE, ok |-> ok, err |-> err, entry |-> e]

from_yaml(ls) ==
    LET name == as_str(Index(ls, "name"))
        cmd  == as_str(Index(ls, "cmd"))
    IN  IF ~name.some THEN Loaded(FALSE, "MissingName", NoLoad.entry)
        ELSE IF ~cmd.some THEN Loaded(FALSE, "MissingCmd", NoLoad.entry)
        ELSE Loaded(TRUE, "", MkEntry(name.val[1], cmd.val[1],
                                      str_vec(Index(ls, "required_files")),
                                      str_vec(Index(ls, "files")),
                                      as_str(Index(ls, "sha"))))

Names == {"", "t"}
StoredShas == {None, Some("s0")}
NewShas == {None, Some("s1")}

InitYaml ==
    /\ \E n \in Names, c \in Cmds, d \in Decls, s \in StoredShas :
          entry = MkEntry(n, c, d[2], d[1], s)
    /\ fs = [p \in CanonPaths |-> Absent]
    /\ last = NoCall
    /\ fresh = FALSE
    /\ alt = NoAlt
    /\ doc = NoDoc
    /\ loaded = NoLoad

Dump ==
    /\ ~doc.set
    /\ \E n \in NewShas : doc' = [set |-> TRUE, lines |-> dump(entry, n), new_sha |-> n]
    /\ UNCHANGED <<entry, fs, last, fresh, alt, loaded>>

Load ==
    /\ doc.set
    /\ ~loaded.set
    /\ loaded' = from_yaml(doc.lines)
    /\ UNCHANGED <<entry, fs, last, fresh, alt, doc>>

NextYaml == Dump \/ Load

SpecYaml == InitYaml /\ [][NextYaml]_vars

(***************************************************************************)
(* Properties of the life of an entry (Spec).                              *)
(***************************************************************************)
\* the staleness state the last call found
Found == Staleness(entry, last.fs0)
\* whether every required_files path resolved when the last call began
FoundRequired == RequiredOk(entry, last.fs0)

\* C1: whenever some required_files path does not resolve, reify returns
\* MissingRequiredFiles, spawns nothing, computes no fingerprint and leaves
\* the files alone, whatever the stored sha is.
C1_MissingRequired ==
    (last.op = "reify" /\ ~FoundRequired) =>
        /\ last.kind = "MissingRequiredFiles"
        /\ last.spawns = 0
        /\ last.hashes = 0
        /\ fs = last.fs0

\* reify met a missing required file while the stored sha matched the files
C1_Witness ==
    /\ last.op = "reify"
    /\ ~FoundRequired
    /\ Found = "Unchanged"
    /\ last.kind = "MissingRequiredFiles"

\* C2 as stated: with the stored sha equal to the fresh fingerprint, reify
\* and dry_run both return Noop and spawn nothing.
C2_UnchangedIsNoop ==
    (last.op \in {"reify", "dry_run"} /\ Found = "Unchanged") =>
        (last.kind = "Noop" /\ last.spawns = 0)

\* C2 amended: with the stored sha equal to the fresh fingerprint, dry_run
\* returns Noop, reify returns Noop when every required file resolves and
\* MissingRequiredFiles when one does not, and neither spawns a process.
C2_UnchangedIsNoopIfRequired ==
    (last.op \in {"reify", "dry_run"} /\ Found = "Unchanged") =>
        /\ last.spawns = 0
        /\ fs = last.fs0
        /\ last.op = "dry_run" => last.kind = "Noop"
        /\ last.op = "reify" =>
              last.kind = (IF FoundRequired THEN "Noop" ELSE "MissingRequiredFiles")

\* reify skipped an unchanged entry that declares files
C2_Witness ==
    /\ last.op = "reify"
    /\ Found = "Unchanged"
    /\ entry.required_files # <<>>
    /\ last.kind = "Noop"

\* the fingerprint an ExecSuccess carries is the one of the files as the
\* command left them
PostExecFingerprint ==
    last.kind = "ExecSuccess" =>
        /\ last.out = [kind |-> "Exit", code |-> 0]
        /\ last.rehash
        /\ calc_sha(entry, fs) = ShaOk(last.sha)

\* C3 as stated: ExecSuccess carries the post-execution fingerprint, and a
\* reify that follows its storing with nothing changed in between returns
\* Noop and spawns nothing.
C3_RerunIsNoop ==
    /\ PostExecFingerprint
    /\ (last.op = "reify" /\ last.fresh0) => (last.kind = "Noop" /\ last.spawns = 0)

\* C3 amended: the same, when every required file still resolves after the
\* command; when the command removed one, the second call returns
\* MissingRequiredFiles, and spawns nothing either.
C3_RerunIsNoopIfRequired ==
    /\ PostExecFingerprint
    /\ (last.op = "reify" /\ last.fresh0) =>
          /\ last.spawns = 0
          /\ fs = last.fs0
          /\ last.kind = (IF FoundRequired THEN "Noop" ELSE "MissingRequiredFiles")

\* reify returned Noop on the fingerprint just stored, over existing files
C3_Witness ==
    /\ last.op = "reify"
    /\ last.fresh0
    /\ last.kind = "Noop"
    /\ \E i \in 1..Len(entry.files) : canonicalize(entry.files[i], fs).some

\* C4: a command that exits with a code c other than 0 gives ExecFail(c),
\* no fingerprint is computed after it or returned, and the stored sha is
\* what it was; a process that ends with no exit code gives the outer Err.
C4_ExecFail ==
    (last.op = "reify" /\ last.spawns > 0) =>
        /\ (last.out.kind = "Exit" /\ last.out.code # 0) =>
              /\ last.kind = "ExecFail"
              /\ last.code = last.out.code
              /\ ~last.rehash
              /\ last.sha = <<>>
              /\ entry.sha = last.sha0
        /\ last.out.kind = "NoCode" => last.kind = "Err"
        /\ last.kind = "ExecFail" => (last.out.kind = "Exit" /\ last.out.code # 0)

\* the command of an entry with a stored sha exited 3
C4_Witness ==
    /\ last.op = "reify"
    /\ last.out = [kind |-> "Exit", code |-> 3]
    /\ last.kind = "ExecFail"
    /\ last.code = 3
    /\ last.sha0.some

\* C8: dry_run spawns nothing and changes neither the files nor the entry;
\* it returns DryFail when the sha is unset or differs from the fresh
\* fingerprint, Noop when they are equal, and never MissingRequiredFiles,
\* ExecSuccess or ExecFail, whether or not the required files resolve.
C8_DryRun ==
    last.op = "dry_run" =>
        /\ last.spawns = 0
        /\ fs = last.fs0
        /\ entry.sha = last.sha0
        /\ last.kind \notin {"MissingRequiredFiles", "ExecSuccess", "ExecFail"}
        /\ Found \in {"NoHistory", "Changed"} <=> last.kind = "DryFail"
        /\ Found = "Unchanged" <=> last.kind = "Noop"
        /\ Found = "IoError" <=> last.kind = "Err"

\* dry_run found a changed entry whose required file is missing
C8_Witness ==
    /\ last.op = "dry_run"
    /\ ~FoundRequired
    /\ Found = "Changed"
    /\ last.kind = "DryFail"

\* C9: with every required file resolving, reify spawns the command once
\* when the sha is unset or differs from the fresh fingerprint and not at
\* all when they are equal; with the sha unset it never returns Noop.
C9_SpawnsOnceWhenStale ==
    (last.op = "reify" /\ FoundRequired) =>
        /\ Found \in {"NoHistory", "Changed"} => last.spawns = 1
        /\ Found = "Unchanged" => last.spawns = 0
        /\ Found = "NoHistory" => last.kind # "Noop"

\* reify ran the command of an entry whose files had changed
C9_Witness ==
    /\ last.op = "reify"
    /\ FoundRequired
    /\ Found = "Changed"
    /\ last.spawns = 1
    /\ last.kind = "ExecSuccess"

(***************************************************************************)
(* Properties of the fingerprint (SpecSha, SpecPair).                      *)
(***************************************************************************)
\* the fingerprint CalcSha computed
Computed == [ok |-> last.kind = "Ok", sha |-> last.sha]

Count(xs, x) == Cardinality({i \in 1..Len(xs) : xs[i] = x})
IsPerm(xs, ys) == Len(xs) = Len(ys) /\ \A p \in Paths : Count(xs, p) = Count(ys, p)
Without(xs, i) == SubSeq(xs, 1, i - 1) \o SubSeq(xs, i + 1, Len(xs))
Declared(e) == e.files \o e.required_files

\* the bytes a declared path contributes to the stream
Bytes(f, p) == f[Canon(p)].bytes

\* C5 as stated: for fixed declarations, two (filesystem, cmd) pairs have
\* the same fingerprint exactly when every declared file contributes the
\* same bytes in both and cmd is the same in both.
C5_ChangesIffInputsChange ==
    (alt.set /\ Computed.ok /\ alt.r.ok) =>
        (Computed.sha = alt.r.sha <=>
            /\ entry.cmd = alt.cmd
            /\ \A i \in 1..Len(Declared(entry)) :
                  Bytes(fs, Declared(entry)[i]) = Bytes(alt.fs, Declared(entry)[i]))

\* C6: any permutation of files and of required_files has the fingerprint
\* of the entry as declared.
C6_OrderIndependent ==
    last.op = "calc_sha" =>
        \A d \in Decls :
            (IsPerm(d[1], entry.files) /\ IsPerm(d[2], entry.required_files)) =>
                calc_sha([entry EXCEPT !.files = d[1], !.required_files = d[2]], fs) = Computed

\* two files of different content, declared in descending path order
C6_Witness ==
    /\ last.op = "calc_sha"
    /\ entry.files = <<"b", "a">>
    /\ fs[1].kind = "file"
    /\ fs[2].kind = "file"
    /\ fs[1].bytes # fs[2].bytes
    /\ Computed.ok

\* the contents of canonical paths c, c+1, ..., each as often as it is declared
RECURSIVE PerDeclaration(_, _, _)
PerDeclaration(e, f, c) ==
    IF c \notin CanonPaths THEN <<>>
    ELSE LET n == Cardinality({i \in 1..Len(Declared(e)) : Canon(Declared(e)[i]) = c})
             rep[k \in 0..n] == IF k = 0 THEN <<>> ELSE f[c].bytes \o rep[k - 1]
         IN  rep[n] \o PerDeclaration(e, f, c + 1)

\* C10: a file's bytes enter the stream once per declaration that resolves
\* to it; dropping one of several declarations of a non-empty file changes
\* the fingerprint; moving a path between the two lists does not.
C10_OncePerDeclaration ==
    (last.op = "calc_sha" /\ Computed.ok) =>
        /\ Computed.sha = PerDeclaration(entry, fs, 1) \o entry.cmd
        /\ \A i \in 1..Len(entry.files) :
              LET rest == [entry EXCEPT !.files = Without(entry.files, i)]
                  p == entry.files[i]
              IN  /\ calc_sha([rest EXCEPT !.required_files = @ \o <<p>>], fs) = Computed
                  /\ ((\E j \in 1..Len(Declared(rest)) : Canon(Declared(rest)[j]) = Canon(p))
                        /\ fs[Canon(p)].bytes # <<>>) => calc_sha(rest, fs) # Computed
        /\ \A i \in 1..Len(entry.required_files) :
              LET rest == [entry EXCEPT !.required_files = Without(entry.required_files, i)]
                  p == entry.required_files[i]
              IN  /\ calc_sha([rest EXCEPT !.files = @ \o <<p>>], fs) = Computed
                  /\ ((\E j \in 1..Len(Declared(rest)) : Canon(Declared(rest)[j]) = Canon(p))
                        /\ fs[Canon(p)].bytes # <<>>) => calc_sha(rest, fs) # Computed

\* a non-empty file declared under two spellings, one in each list
C10_Witness ==
    /\ last.op = "calc_sha"
    /\ entry.files = <<"a">>
    /\ entry.required_files = <<"./a">>
    /\ fs[1].kind = "file"
    /\ fs[1].bytes # <<>>
    /\ Computed.sha = fs[1].bytes \o fs[1].bytes \o entry.cmd

(***************************************************************************)
(* Properties of serialization (SpecYaml).                                 *)
(***************************************************************************)
\* C7 as stated: what dump writes, from_yaml loads, to an entry with the
\* same name, cmd, required_files and files, and with new_sha if one was
\* given, else the stored sha.
C7_DumpRoundTrip ==
    loaded.set =>
        /\ loaded.ok
        /\ loaded.entry = [entry EXCEPT !.sha = IF doc.new_sha.some THEN doc.new_sha ELSE entry.sha]

====
